---------------------------- MODULE Spec2Model ----------------------------
(***************************************************************************)
(* Model of the trace agent's data plane:                                  *)
(*                                                                         *)
(*   - the Orchestrator (Agent.Run / Agent.Process) with the goroutines    *)
(*     it starts on the Concentrator and the Sampler, and the payload it   *)
(*     sends to the Writer (specifications Spec and FairSpec);             *)
(*   - the HTTP receiver (HTTPReceiver.handleTraces, logStats) and its     *)
(*     traces channel (specification RecvSpec).                            *)
(*                                                                         *)
(* Time is counted in abstract units; the clock model.Now() is the         *)
(* variable now.                                                           *)
(***************************************************************************)
EXTENDS Integers, Sequences, FiniteSets, TLC

(***************************************************************************)
(* Bounds of the model.                                                    *)
(***************************************************************************)
\* conf.BucketInterval (bucket size and flush period), in time units
BSize == 2
\* conf.OldestSpanCutoff, in time units
Cutoff == 3
\* value of the clock when the agent starts
T0 == 6
\* flush ticks the ticker delivers in a run
MaxTicks == 2
\* traces the Orchestrator receives in a run
MaxTraces == 2

VARIABLES
    now,          \* model.Now()
    tickReady,    \* flushTicker.C holds a tick (a channel of capacity 1)
    exitRaised,   \* a.exit is closed
    runPc,        \* position of Agent.Run: "select", "send", "break", "exiting", "returned"
    receiverExit, \* a.Receiver.exit is closed
    writerExit,   \* a.Writer.exit is closed
    procs,        \* one record per trace received by Run: the trace and its two goroutines
    ticks,        \* one record per flush tick handled by Run: the payload and its two goroutines
    mu,           \* Concentrator.mu: <<>> when free, else its holder
    buckets,      \* Concentrator.buckets: bucket start -> StatsBucket
    sampBuf,      \* the traces staged in the Sampler
    written,      \* payloads received by the Writer on inPayloads, in order
    hs,           \* one record per HTTP request: the goroutine of handleTraces serving it
    traces,       \* HTTPReceiver.traces, the channel to the Orchestrator
    stats,        \* HTTPReceiver.stats, the receiver's counters
    statsdErrors, \* trace_agent.receiver.error counts given to statsd
    ls,           \* the goroutine of logStats: its position and its local variables
    reports,      \* what logStats has given to statsd, one record per interval
    fm,           \* a span, whether NewFlushMarker made it, and what IsFlushMarker said of it
    samplerPc,    \* position of Sampler.run: "select", "send", "returned"
    window,       \* the spans the sampling engine holds since its last flush
    held,         \* the payload Sampler.run is sending on out
    inSpans,      \* Sampler.inSpans, a channel
    inPayloads,   \* Sampler.inPayloads, a channel
    out,          \* the payloads received from Sampler.out, in order
    samplerExit,  \* Sampler.exit is closed
    wgDone,       \* the calls of s.wg.Done()
    outReader,    \* the task that receives from Sampler.out: "recv", "returned"
    received      \* what Sampler.run has received on inSpans and inPayloads, in order

envVars == <<now, tickReady, exitRaised>>
runVars == <<runPc, receiverExit, writerExit>>
concVars == <<mu, buckets>>
agentVars == <<envVars, runVars, procs, ticks, concVars, sampBuf, written>>

recvVars == <<hs, traces, stats, statsdErrors, ls, reports>>

\* the state of the other parts of the program
samplerVars == <<samplerPc, window, held, inSpans, inPayloads, out, samplerExit, wgDone,
                 outReader, received>>
miscVars == <<fm, samplerVars>>

vars == <<agentVars, recvVars, miscVars>>

(***************************************************************************)
(* Spans and traces.                                                       *)
(***************************************************************************)
\* Span.End: Start + Duration
End(s) == s.Start + s.Duration

\* Go's % on int64: the remainder has the sign of the dividend
GoRem(a, b) == IF a >= 0 THEN a % b ELSE 0 - ((0 - a) % b)

\* a span reference: <<index of the trace in procs, index of the span in the trace>>
SpanRefs == (1..MaxTraces) \X (1..2)

\* Trace.GetRoot: the span whose parent is 0 or not a span of the trace
GetRoot(t) ==
    LET ids == {t[j].SpanID : j \in 1..Len(t)}
        roots == {j \in 1..Len(t) : t[j].ParentID = 0 \/ t[j].ParentID \notin ids}
    IN t[CHOOSE j \in roots : \A k \in roots : j <= k]

\* Span.Normalize: whether the span is kept (identifiers set, start not before
\* the floor of the accepted window, duration not negative after clamping)
NormalizeOK(s) == s.TraceID # 0 /\ s.SpanID # 0 /\ s.Start >= 0

\* the traces the Receiver can hand to Run, all of trace id 7: a root span of
\* duration 2, alone or with a child of duration 0 that starts with it. The
\* root ends at T0 - Cutoff - 1 (late from the start), at T0 - BSize + 1 (in a
\* bucket that is complete at the first flush) or at T0 + BSize + 1 (in a bucket
\* still open then).
RootSpan(start) ==
    [TraceID |-> 7, SpanID |-> 1, ParentID |-> 0, Start |-> start, Duration |-> 2]
ChildSpan(r) ==
    [TraceID |-> 7, SpanID |-> 2, ParentID |-> 1, Start |-> r.Start, Duration |-> 0]
ReceivedTraces ==
    {<<RootSpan(T0 - Cutoff - 3)>>,
     <<RootSpan(T0 - BSize - 1)>>,
     <<RootSpan(T0 - BSize - 1), ChildSpan(RootSpan(T0 - BSize - 1))>>,
     <<RootSpan(T0 + BSize - 1), ChildSpan(RootSpan(T0 + BSize - 1))>>}

(***************************************************************************)
(* Concentrator.                                                           *)
(***************************************************************************)
\* NewStatsBucket: an empty bucket; Hits counts the HandleSpan calls per span
NewStatsBucket(btime, bsize) ==
    [Start |-> btime, Duration |-> bsize, Hits |-> [r \in SpanRefs |-> 0]]

\* StatsBucket.HandleSpan
HandleSpan(b, ref) == [b EXCEPT !.Hits[ref] = @ + 1]

\* a variant of the bucket key: aligned on the start of the span, not its end
BTimeOfStart(s) == s.Start - GoRem(s.Start, BSize)

\* the bucket key of a span in Concentrator.Add
BTime(s) == End(s) - GoRem(End(s), BSize)

\* a variant of the loop of Add: a bucket created for a span is not stored
RECURSIVE AddSpansNoStore(_, _, _, _)
AddSpansNoStore(bk, i, t, j) ==
    IF j > Len(t) THEN bk
    ELSE LET btime == End(t[j]) - GoRem(End(t[j]), BSize)
         IN AddSpansNoStore([k \in DOMAIN bk |->
                                IF k = btime THEN HandleSpan(bk[k], <<i, j>>) ELSE bk[k]],
                            i, t, j + 1)

\* the loop of Concentrator.Add over the spans j..Len(t) of trace i
RECURSIVE AddSpans(_, _, _, _)
AddSpans(bk, i, t, j) ==
    IF j > Len(t) THEN bk
    ELSE LET btime == BTime(t[j])
             b == IF btime \in DOMAIN bk THEN bk[btime]
                  ELSE NewStatsBucket(btime, BSize)
             nb == HandleSpan(b, <<i, j>>)
         IN AddSpans([k \in DOMAIN bk \cup {btime} |-> IF k = btime THEN nb ELSE bk[k]],
                     i, t, j + 1)

\* a variant of the test of Flush: a bucket that starts at now - bsize is kept
FlushKeysStrict(bk, n) == {ts \in DOMAIN bk : ts < n - BSize}

\* a variant of the test of Flush: a bucket is kept only if it starts after now
FlushKeysNoSize(bk, n) == {ts \in DOMAIN bk : ~(ts > n)}

\* the keys Concentrator.Flush removes when it read the clock value n
FlushKeys(bk, n) == {ts \in DOMAIN bk : ~(ts > n - BSize)}

\* a variant of Flush: the returned buckets are not deleted from the map
FlushRestKeepAll(bk, n) == bk

\* what Concentrator.Flush returns and what it leaves in the map
FlushResult(bk, n) == {bk[ts] : ts \in FlushKeys(bk, n)}
FlushRest(bk, n) == [ts \in DOMAIN bk \ FlushKeys(bk, n) |-> bk[ts]]

(***************************************************************************)
(* Initial state of the Orchestrator and its aggregators.                  *)
(***************************************************************************)
EmptyMap == [ts \in {} |-> 0]

AgentInit ==
    /\ now = T0
    /\ tickReady = FALSE
    /\ exitRaised = FALSE
    /\ runPc = "select"
    /\ receiverExit = FALSE
    /\ writerExit = FALSE
    /\ procs = <<>>
    /\ ticks = <<>>
    /\ mu = <<>>
    /\ buckets = EmptyMap
    /\ sampBuf = {}
    /\ written = <<>>

(***************************************************************************)
(* The environment: the clock, the flush ticker, the exit signal.          *)
(***************************************************************************)
\* time passes; the ticker created in Run puts a tick on its channel every
\* BucketInterval (a tick is dropped when the channel still holds one)
Advance ==
    /\ now < T0 + MaxTicks * BSize
    /\ now' = now + 1
    /\ tickReady' = (tickReady \/ (now + 1 - T0) % BSize = 0)
    /\ UNCHANGED recvVars
    /\ UNCHANGED miscVars
    /\ UNCHANGED <<exitRaised, runVars, procs, ticks, concVars, sampBuf, written>>

\* the exit channel of the Agent is closed
RaiseExit ==
    /\ ~exitRaised
    /\ exitRaised' = TRUE
    /\ UNCHANGED recvVars
    /\ UNCHANGED miscVars
    /\ UNCHANGED <<now, tickReady, runVars, procs, ticks, concVars, sampBuf, written>>

(***************************************************************************)
(* Agent.Process and Agent.Run.                                            *)
(***************************************************************************)
\* a variant of Process: a root that ends exactly at the cutoff is late too
ProcessLateInclusive(t, n) ==
    IF Len(t) = 0 \/ End(GetRoot(t)) <= n - Cutoff
    THEN [trace |-> t, conc |-> "dropped", samp |-> "dropped"]
    ELSE [trace |-> t, conc |-> "ready", samp |-> "ready"]

\* a variant of Process: only Concentrator.Add is started
ProcessConcOnly(t, n) ==
    IF Len(t) = 0 \/ End(GetRoot(t)) < n - Cutoff
    THEN [trace |-> t, conc |-> "dropped", samp |-> "dropped"]
    ELSE [trace |-> t, conc |-> "ready", samp |-> "dropped"]

\* Agent.Process: what becomes of trace t received at clock value n. A trace
\* that is empty or late starts no goroutine; any other starts
\* Concentrator.Add and Sampler.Add, each in a goroutine of its own.
Process(t, n) ==
    IF Len(t) = 0 \/ End(GetRoot(t)) < n - Cutoff
    THEN [trace |-> t, conc |-> "dropped", samp |-> "dropped"]
    ELSE [trace |-> t, conc |-> "ready", samp |-> "ready"]

\* case t := <-a.Receiver.traces: a.Process(t)
RunRecvTrace ==
    /\ runPc = "select"
    /\ Len(procs) < MaxTraces
    /\ \E t \in ReceivedTraces : procs' = Append(procs, Process(t, now))
    /\ UNCHANGED recvVars
    /\ UNCHANGED miscVars
    /\ UNCHANGED <<envVars, runVars, ticks, concVars, sampBuf, written>>

\* the traces whose Concentrator.Add has returned
AddsDone == {i \in 1..Len(procs) : procs[i].conc = "done"}

\* the traces Process has dispatched to the aggregators so far
Dispatched == {i \in 1..Len(procs) : procs[i].conc # "dropped"}

\* the payload p and the two goroutines of a flush tick
NewTick ==
    [conc |-> "start", cnow |-> 0, added |-> {}, res |-> {}, saw |-> EmptyMap,
     samp |-> "ready", sres |-> {},
     p |-> [Stats |-> {}, Traces |-> {}],
     sent |-> FALSE, dispatched |-> Dispatched, afterExit |-> exitRaised]

\* case <-flushTicker.C, up to the send
RunTick ==
    /\ runPc = "select"
    /\ tickReady
    /\ tickReady' = FALSE
    /\ ticks' = Append(ticks, NewTick)
    /\ runPc' = "send"
    /\ UNCHANGED recvVars
    /\ UNCHANGED miscVars
    /\ UNCHANGED <<now, exitRaised, receiverExit, writerExit, procs, concVars, sampBuf,
                   written>>

\* a.Writer.inPayloads <- p: the Writer receives the value p has at the send
RunSend ==
    /\ runPc = "send"
    /\ written' = Append(written, ticks[Len(ticks)].p)
    /\ ticks' = [ticks EXCEPT ![Len(ticks)].sent = TRUE]
    /\ runPc' = "select"
    /\ UNCHANGED recvVars
    /\ UNCHANGED miscVars
    /\ UNCHANGED <<envVars, receiverExit, writerExit, procs, concVars, sampBuf>>

\* case <-a.exit: break
RunExitCase ==
    /\ runPc = "select"
    /\ exitRaised
    /\ runPc' = "break"
    /\ UNCHANGED recvVars
    /\ UNCHANGED miscVars
    /\ UNCHANGED <<envVars, receiverExit, writerExit, procs, ticks, concVars, sampBuf,
                   written>>

\* where the break of the exit case leads: it ends the select statement, the
\* last statement of the body of the for loop, so the loop goes on
BreakTarget == "select"

\* the statement after the break: the next iteration of the for loop or, were
\* the loop left, the closing of the exit channels and the return of Run
RunAfterBreak ==
    /\ runPc \in {"break", "exiting"}
    /\ IF runPc = "break"
       THEN /\ runPc' = BreakTarget
            /\ UNCHANGED <<receiverExit, writerExit>>
       ELSE /\ receiverExit' = TRUE
            /\ writerExit' = TRUE
            /\ runPc' = "returned"
    /\ UNCHANGED recvVars
    /\ UNCHANGED miscVars
    /\ UNCHANGED <<envVars, procs, ticks, concVars, sampBuf, written>>

(***************************************************************************)
(* The goroutines of Process: Concentrator.Add and Sampler.Add.            *)
(***************************************************************************)
\* a variant of the mutex: Lock never waits
MuFreeAlways(m) == TRUE

\* c.mu.Lock() returns when no goroutine holds the mutex
MuFree(m) == m = <<>>

\* c.mu.Lock() in Concentrator.Add
ConcAddLock(i) ==
    /\ procs[i].conc = "ready"
    /\ MuFree(mu)
    /\ mu' = <<"add", i>>
    /\ procs' = [procs EXCEPT ![i].conc = "locked"]
    /\ UNCHANGED recvVars
    /\ UNCHANGED miscVars
    /\ UNCHANGED <<envVars, runVars, ticks, buckets, sampBuf, written>>

\* the loop of Concentrator.Add and the deferred c.mu.Unlock()
ConcAddBody(i) ==
    /\ procs[i].conc = "locked"
    /\ buckets' = AddSpans(buckets, i, procs[i].trace, 1)
    /\ mu' = <<>>
    /\ procs' = [procs EXCEPT ![i].conc = "done"]
    /\ UNCHANGED recvVars
    /\ UNCHANGED miscVars
    /\ UNCHANGED <<envVars, runVars, ticks, sampBuf, written>>

\* Sampler.Add: the trace is staged for the next flush (the selection made by
\* the sampling engine is not modelled: a flush returns what is staged)
SampAdd(i) ==
    /\ procs[i].samp = "ready"
    /\ sampBuf' = sampBuf \cup {i}
    /\ procs' = [procs EXCEPT ![i].samp = "done"]
    /\ UNCHANGED recvVars
    /\ UNCHANGED miscVars
    /\ UNCHANGED <<envVars, runVars, ticks, concVars, written>>

(***************************************************************************)
(* The goroutines of a flush tick: Concentrator.Flush and Sampler.Flush.   *)
(***************************************************************************)
\* now := model.Now() in Concentrator.Flush
ConcFlushNow(k) ==
    /\ ticks[k].conc = "start"
    /\ ticks' = [ticks EXCEPT ![k].conc = "gotnow", ![k].cnow = now]
    /\ UNCHANGED recvVars
    /\ UNCHANGED miscVars
    /\ UNCHANGED <<envVars, runVars, procs, concVars, sampBuf, written>>

\* c.mu.Lock() in Concentrator.Flush
ConcFlushLock(k) ==
    /\ ticks[k].conc = "gotnow"
    /\ MuFree(mu)
    /\ mu' = <<"flush", k>>
    /\ ticks' = [ticks EXCEPT ![k].conc = "locked", ![k].added = AddsDone]
    /\ UNCHANGED recvVars
    /\ UNCHANGED miscVars
    /\ UNCHANGED <<envVars, runVars, procs, buckets, sampBuf, written>>

\* the loop of Concentrator.Flush, the deferred c.mu.Unlock() and, back in the
\* goroutine of Run, p.Stats = <the result>
ConcFlushBody(k) ==
    /\ ticks[k].conc = "locked"
    /\ buckets' = FlushRest(buckets, ticks[k].cnow)
    /\ mu' = <<>>
    /\ ticks' = [ticks EXCEPT ![k].conc = "done",
                              ![k].saw = buckets,
                              ![k].res = FlushResult(buckets, ticks[k].cnow),
                              ![k].p.Stats = FlushResult(buckets, ticks[k].cnow)]
    /\ UNCHANGED recvVars
    /\ UNCHANGED miscVars
    /\ UNCHANGED <<envVars, runVars, procs, sampBuf, written>>

\* Sampler.Flush: swap the staged buffer and return it; p.Traces = <the result>
SampFlush(k) ==
    /\ ticks[k].samp = "ready"
    /\ sampBuf' = {}
    /\ ticks' = [ticks EXCEPT ![k].samp = "done",
                              ![k].sres = sampBuf,
                              ![k].p.Traces = sampBuf]
    /\ UNCHANGED recvVars
    /\ UNCHANGED miscVars
    /\ UNCHANGED <<envVars, runVars, procs, concVars, written>>

(***************************************************************************)
(* The HTTP receiver: requests.                                            *)
(***************************************************************************)
\* spans of a request body (sum over its traces)
MaxSpans == 3
\* HTTP requests served in a run
MaxReqs == 1
\* intervals logStats reports in a run
MaxLogs == 1
\* capacity of HTTPReceiver.traces
ChanCap == 50

\* the API versions Run registers handlers for
Versions == {"v01", "v02", "v03"}

\* Content-Type headers of a request ("" when the header is absent)
ContentTypes == {"application/json", "text/json", "", "application/msgpack", "text/plain"}

\* the spans of a body: valid with trace id 7, valid with trace id 8 and a
\* negative duration, or with trace id 7 and no span id
Kinds == {"g7", "g8", "b7"}

SpanOf(kind, j) ==
    [TraceID |-> IF kind = "g8" THEN 8 ELSE 7,
     SpanID |-> IF kind = "b7" THEN 0 ELSE j,
     ParentID |-> 0,
     Start |-> T0,
     Duration |-> IF kind = "g8" THEN 0 - 1 ELSE 1]

SpanLists ==
    UNION {{[j \in 1..n |-> SpanOf(ks[j], j)] : ks \in [1..n -> Kinds]} : n \in 0..MaxSpans}

\* the ways to cut a list of spans into consecutive non-empty traces
RECURSIVE Splits(_)
Splits(l) ==
    IF l = <<>> THEN {<<>>}
    ELSE UNION {{<<SubSeq(l, 1, k)>> \o rest : rest \in Splits(SubSeq(l, k + 1, Len(l)))}
                : k \in 1..Len(l)}

TraceLists == UNION {Splits(l) : l \in SpanLists} \cup {<< <<>> >>}

\* a request body: its encoding ("bad": neither decoder reads it), its shape (a
\* list of spans or a list of traces) and what it encodes
Bodies ==
    {[enc |-> "bad", shape |-> "traces", data |-> <<>>]}
      \cup [enc : {"json", "msgpack"}, shape : {"spans"}, data : SpanLists]
      \cup [enc : {"json", "msgpack"}, shape : {"traces"}, data : TraceLists]

(***************************************************************************)
(* The HTTP receiver: handleTraces.                                        *)
(***************************************************************************)
\* the test of v01 and v02 that raises 415
UnsupportedMedia(ct) == ct # "application/json" /\ ct # "text/json" /\ ct # ""

\* a variant of initDecoder: the JSON decoder whatever the Content-Type
initDecoderJSON(ct) == "json"

\* initDecoder
initDecoder(ct) == IF ct = "application/msgpack" THEN "msgpack" ELSE "json"

\* the decoder handleTraces reads the body with
DecoderOf(v, ct) == IF v = "v03" THEN initDecoder(ct) ELSE "json"

\* dec.Decode succeeds: the body is in the decoder's encoding and holds a list
\* of spans for v01, a list of traces for v02 and v03 (an empty list is both)
DecodeOK(v, dec, body) ==
    /\ body.enc = dec
    /\ \/ body.data = <<>>
       \/ body.shape = (IF v = "v01" THEN "spans" ELSE "traces")

\* the orders in which a range loop can visit the keys of a map
RECURSIVE Orderings(_)
Orderings(S) ==
    IF S = {} THEN {<<>>}
    ELSE UNION {{<<x>> \o r : r \in Orderings(S \ {x})} : x \in S}

\* the spans of a list that carry trace id
ByID(spans, id) == SelectSeq(spans, LAMBDA sp : sp.TraceID = id)

\* a variant of the grouping: a span replaces the group of its trace id
GroupByIDLast(spans) ==
    LET ids == {spans[j].TraceID : j \in 1..Len(spans)}
    IN {[n \in 1..Len(o) |->
            <<ByID(spans, o[n])[Len(ByID(spans, o[n]))]>>] : o \in Orderings(ids)}

\* v01: the spans grouped by trace id, the groups in any order
GroupByID(spans) ==
    LET ids == {spans[j].TraceID : j \in 1..Len(spans)}
    IN {[n \in 1..Len(o) |-> ByID(spans, o[n])] : o \in Orderings(ids)}

\* the lists of traces the switch of handleTraces can produce from a body
Decoded(v, body) == IF v = "v01" THEN GroupByID(body.data) ELSE {body.data}

\* a variant of the responses: an error response is not followed by a return
ResponsesNoReturn(v, ct, body) ==
    IF v \in {"v01", "v02"} /\ UnsupportedMedia(ct) THEN <<415, 200>>
    ELSE IF v \in Versions /\ DecodeOK(v, DecoderOf(v, ct), body) THEN <<200>>
    ELSE <<500, 200>>

\* the response codes written for a request, in order: an error response and
\* a return, or HTTPOK; a version outside the switch writes its error and
\* goes on to HTTPOK
Responses(v, ct, body) ==
    IF v \in {"v01", "v02"} /\ UnsupportedMedia(ct) THEN <<415>>
    ELSE IF v \in Versions
         THEN IF DecodeOK(v, DecoderOf(v, ct), body) THEN <<200>> ELSE <<500>>
         ELSE <<500, 200>>

\* Span.Normalize: the span as normalized (a negative duration becomes 0)
Normalize(sp) == [sp EXCEPT !.Duration = IF @ < 0 THEN 0 ELSE @]

\* a variant of the trace id test: only the second span is compared
MismatchSecondOnly(t) == Len(t) >= 2 /\ t[2].TraceID # t[1].TraceID

\* whether some span of t differs in trace id from the one before it
Mismatch(t) == \E j \in 2..Len(t) : t[j].TraceID # t[j - 1].TraceID

\* toRemove: the indexes (from 1) of the spans Normalize rejects, ascending
RECURSIVE ToRemove(_, _)
ToRemove(t, j) ==
    IF j > Len(t) THEN <<>>
    ELSE (IF NormalizeOK(t[j]) THEN <<>> ELSE <<j>>) \o ToRemove(t, j + 1)

\* the spans of t normalized in place
Normalized(t) == [j \in 1..Len(t) |-> IF NormalizeOK(t[j]) THEN Normalize(t[j]) ELSE t[j]]

\* a variant of the removal loop: the trace loses its last element without
\* the swap
RECURSIVE SwapRemoveTruncateOnly(_, _, _)
SwapRemoveTruncateOnly(t, rem, n) ==
    IF n = 0 THEN [panic |-> FALSE, t |-> t]
    ELSE IF rem[n] > Len(t) THEN [panic |-> TRUE, t |-> t]
    ELSE SwapRemoveTruncateOnly(SubSeq(t, 1, Len(t) - 1), rem, n - 1)

\* a variant of the removal loop: the indices are taken from the first to
\* the last
RECURSIVE SwapRemoveAscending(_, _, _)
SwapRemoveAscending(t, rem, n) ==
    IF n = 0 THEN [panic |-> FALSE, t |-> t]
    ELSE LET idx == rem[Len(rem) - n + 1]
         IN IF idx > Len(t) THEN [panic |-> TRUE, t |-> t]
            ELSE SwapRemoveAscending(SubSeq([t EXCEPT ![idx] = t[Len(t)]], 1, Len(t) - 1),
                                     rem, n - 1)

\* the removal loop over rem[1..n], from the last index to the first: each
\* index takes the last span and the trace loses its last element; an index
\* past the end panics
RECURSIVE SwapRemove(_, _, _)
SwapRemove(t, rem, n) ==
    IF n = 0 THEN [panic |-> FALSE, t |-> t]
    ELSE IF rem[n] > Len(t) THEN [panic |-> TRUE, t |-> t]
    ELSE SwapRemove(SubSeq([t EXCEPT ![rem[n]] = t[Len(t)]], 1, Len(t) - 1), rem, n - 1)

\* the body of the Traces loop for trace t: what it adds to the four local
\* counters, and the trace it sends on the channel if any
Validate(t) ==
    IF Mismatch(t)
    THEN [kind |-> "mismatch", in |-> t, out |-> <<>>,
          stotal |-> Len(t), sdropped |-> Len(t), ttotal |-> 0, tdropped |-> 1]
    ELSE LET rem == ToRemove(t, 1)
             r == SwapRemove(Normalized(t), rem, Len(rem))
         IN IF Len(rem) = Len(t)
            THEN [kind |-> "empty", in |-> t, out |-> <<>>,
                  stotal |-> Len(t), sdropped |-> Len(rem), ttotal |-> 0, tdropped |-> 1]
            ELSE IF r.panic
            THEN [kind |-> "panic", in |-> t, out |-> <<>>,
                  stotal |-> Len(t), sdropped |-> Len(rem), ttotal |-> 0, tdropped |-> 0]
            ELSE [kind |-> "kept", in |-> t, out |-> r.t,
                  stotal |-> Len(t), sdropped |-> Len(rem), ttotal |-> 1, tdropped |-> 0]

RecvInit ==
    /\ hs = <<>>
    /\ traces = <<>>
    /\ stats = [SpansReceived |-> 0, TracesReceived |-> 0,
                SpansDropped |-> 0, TracesDropped |-> 0]
    /\ statsdErrors = 0
    /\ ls = [pc |-> 0, spans |-> 0, traces |-> 0, sdropped |-> 0, tdropped |-> 0]
    /\ reports = <<>>

\* a request arrives on one of the routes of Run: handleTraces reads the
\* body, checks the Content-Type, decodes, and answers with an error
\* (HTTPErrorAndLog, then return) or with HTTPOK
\* a variant of the error count: no count is given to statsd
ErrorCountsNone(resp) == 0

\* HTTPErrorAndLog: the trace_agent.receiver.error counts given to statsd for
\* a request with these responses
ErrorCounts(resp) == IF resp[1] = 200 THEN 0 ELSE 1

Serve(v, ct, body) ==
    /\ LET resp == Responses(v, ct, body)
           ok == resp[Len(resp)] = 200
       IN /\ \E d \in (IF resp[1] = 200 THEN Decoded(v, body) ELSE {<<>>}) :
               hs' = Append(hs,
                   [pc |-> IF ok THEN "loop" ELSE "done",
                    v |-> v, ct |-> ct, body |-> body,
                    dec |-> IF resp[1] = 415 THEN "none" ELSE DecoderOf(v, ct),
                    resp |-> resp, decoded |-> d, next |-> 1, done |-> <<>>,
                    stotal |-> 0, sdropped |-> 0, ttotal |-> 0, tdropped |-> 0])
          /\ statsdErrors' = statsdErrors + ErrorCounts(resp)
    /\ UNCHANGED <<traces, stats, ls, reports>>
    /\ UNCHANGED agentVars
    /\ UNCHANGED miscVars

\* a request of the menu arrives
HandleRequest ==
    /\ Len(hs) < MaxReqs
    /\ \E v \in Versions, ct \in ContentTypes, body \in Bodies : Serve(v, ct, body)

\* a variant of the send: the channel takes a trace whatever it holds
CanSendUnbounded(ch) == TRUE

\* l.traces <- t can proceed: the channel holds fewer traces than its capacity
CanSend(ch) == Len(ch) < ChanCap

\* one iteration of the Traces loop; the send blocks while the channel is full
HandleTrace(h) ==
    /\ hs[h].pc = "loop"
    /\ hs[h].next <= Len(hs[h].decoded)
    /\ LET r == Validate(hs[h].decoded[hs[h].next])
       IN /\ r.kind = "kept" => CanSend(traces)
          /\ traces' = IF r.kind = "kept" THEN Append(traces, r.out) ELSE traces
          /\ hs' = [hs EXCEPT ![h].pc = IF r.kind = "panic" THEN "panic" ELSE "loop",
                              ![h].next = @ + 1,
                              ![h].done = Append(@, r),
                              ![h].stotal = @ + r.stotal,
                              ![h].sdropped = @ + r.sdropped,
                              ![h].ttotal = @ + r.ttotal,
                              ![h].tdropped = @ + r.tdropped]
    /\ UNCHANGED <<stats, statsdErrors, ls, reports>>
    /\ UNCHANGED agentVars
    /\ UNCHANGED miscVars

\* the four atomic.AddInt64 that end handleTraces, one per step
HandleAdd(h) ==
    /\ \/ hs[h].pc = "loop" /\ hs[h].next > Len(hs[h].decoded)
       \/ hs[h].pc \in {"add2", "add3", "add4"}
    /\ CASE hs[h].pc = "loop" ->
              /\ stats' = [stats EXCEPT !.TracesReceived = @ + hs[h].ttotal]
              /\ hs' = [hs EXCEPT ![h].pc = "add2"]
         [] hs[h].pc = "add2" ->
              /\ stats' = [stats EXCEPT !.SpansReceived = @ + hs[h].stotal]
              /\ hs' = [hs EXCEPT ![h].pc = "add3"]
         [] hs[h].pc = "add3" ->
              /\ stats' = [stats EXCEPT !.TracesDropped = @ + hs[h].tdropped]
              /\ hs' = [hs EXCEPT ![h].pc = "add4"]
         [] hs[h].pc = "add4" ->
              /\ stats' = [stats EXCEPT !.SpansDropped = @ + hs[h].sdropped]
              /\ hs' = [hs EXCEPT ![h].pc = "done"]
    /\ UNCHANGED <<traces, statsdErrors, ls, reports>>
    /\ UNCHANGED agentVars
    /\ UNCHANGED miscVars

(***************************************************************************)
(* The HTTP receiver: logStats.                                            *)
(***************************************************************************)
\* one iteration of the loop of logStats, a load or a store per step; the
\* last store is followed by the four statsd counts of the interval
LogStats ==
    /\ ls.pc = 0 => Len(reports) < MaxLogs
    /\ CASE ls.pc = 0 -> /\ ls' = [ls EXCEPT !.pc = 1, !.spans = stats.SpansReceived]
                         /\ UNCHANGED <<stats, reports>>
         [] ls.pc = 1 -> /\ stats' = [stats EXCEPT !.SpansReceived = 0]
                         /\ ls' = [ls EXCEPT !.pc = 2]
                         /\ UNCHANGED reports
         [] ls.pc = 2 -> /\ ls' = [ls EXCEPT !.pc = 3, !.traces = stats.TracesReceived]
                         /\ UNCHANGED <<stats, reports>>
         [] ls.pc = 3 -> /\ stats' = [stats EXCEPT !.TracesReceived = 0]
                         /\ ls' = [ls EXCEPT !.pc = 4]
                         /\ UNCHANGED reports
         [] ls.pc = 4 -> /\ ls' = [ls EXCEPT !.pc = 5, !.sdropped = stats.SpansDropped]
                         /\ UNCHANGED <<stats, reports>>
         [] ls.pc = 5 -> /\ stats' = [stats EXCEPT !.SpansDropped = 0]
                         /\ ls' = [ls EXCEPT !.pc = 6]
                         /\ UNCHANGED reports
         [] ls.pc = 6 -> /\ ls' = [ls EXCEPT !.pc = 7, !.tdropped = stats.TracesDropped]
                         /\ UNCHANGED <<stats, reports>>
         [] ls.pc = 7 -> /\ stats' = [stats EXCEPT !.TracesDropped = 0]
                         /\ reports' = Append(reports,
                                [spans |-> ls.spans, traces |-> ls.traces,
                                 sdropped |-> ls.sdropped, tdropped |-> ls.tdropped])
                         /\ ls' = [pc |-> 0, spans |-> 0, traces |-> 0,
                                   sdropped |-> 0, tdropped |-> 0]
    /\ UNCHANGED <<hs, traces, statsdErrors>>
    /\ UNCHANGED agentVars
    /\ UNCHANGED miscVars

RecvNext ==
    \/ HandleRequest
    \/ \E h \in 1..Len(hs) : HandleTrace(h)
    \/ \E h \in 1..Len(hs) : HandleAdd(h)
    \/ LogStats

(***************************************************************************)
(* The traces channel, from handleTraces to Agent.Run.                     *)
(***************************************************************************)
\* traces of the request that fills the channel
BurstTraces == 52

\* a JSON body of BurstTraces traces of one valid span each
BurstBody ==
    [enc |-> "json", shape |-> "traces",
     data |-> [n \in 1..BurstTraces |-> <<SpanOf("g7", n)>>]]

\* a v0.2 request with that body arrives
HandleBurst ==
    /\ Len(hs) < MaxReqs
    /\ Serve("v02", "application/json", BurstBody)

\* case t := <-a.Receiver.traces: a.Process(t), the trace taken from the channel
RunRecvChan ==
    /\ runPc = "select"
    /\ traces # <<>>
    /\ procs' = Append(procs, Process(Head(traces), now))
    /\ traces' = Tail(traces)
    /\ UNCHANGED <<hs, stats, statsdErrors, ls, reports>>
    /\ UNCHANGED <<envVars, runVars, ticks, concVars, sampBuf, written>>
    /\ UNCHANGED miscVars

\* a step of the goroutine serving request h
HandlerStep(h) == h \in DOMAIN hs /\ (HandleTrace(h) \/ HandleAdd(h))

ChanNext ==
    \/ HandleBurst
    \/ \E h \in 1..Len(hs) : HandleTrace(h)
    \/ \E h \in 1..Len(hs) : HandleAdd(h)
    \/ RunRecvChan

(***************************************************************************)
(* The channel-based Sampler: Sampler.run, the tasks that feed inSpans and *)
(* inPayloads, and the task that receives from out.                        *)
(***************************************************************************)
MaxInSpans == 2
MaxInPayloads == 2
InCap == 1

\* the spans and the payloads given to the Sampler
FedSpans == {RootSpan(T0), ChildSpan(RootSpan(T0))}
FedPayload(k) == [Stats |-> k, Traces |-> <<>>]

\* SamplerEngine.AddSpan: the span joins the window
AddSpan(w, span) == Append(w, span)

\* SamplerEngine.FlushPayload: the payload leaves with the traces of the
\* window (the selection among them is not modelled), and the window
\* starts again
FlushPayload(w, ap) == [ap EXCEPT !.Traces = w]
FlushedWindow(w) == <<>>

\* a variant of the send: the payload goes out as it came in
OutValueUnflushed(w, ap) == ap

\* the value of s.out <- s.se.FlushPayload(ap)
OutValue(w, ap) == FlushPayload(w, ap)

\* NewSampler, then Start: wg.Add(1) and go s.run()
SamplerInit ==
    /\ samplerPc = "select"
    /\ window = <<>>
    /\ held = FedPayload(0)
    /\ inSpans = <<>>
    /\ inPayloads = <<>>
    /\ out = <<>>
    /\ samplerExit = FALSE
    /\ wgDone = 0
    /\ outReader = "recv"
    /\ received = <<>>

\* what was received of one kind
ReceivedOf(kind) == SelectSeq(received, LAMBDA e : e.kind = kind)

\* a task sends a span on inSpans
FeedSpan ==
    /\ Len(inSpans) < InCap
    /\ Len(inSpans) + Len(ReceivedOf("span")) < MaxInSpans
    /\ \E span \in FedSpans : inSpans' = Append(inSpans, span)
    /\ UNCHANGED <<samplerPc, window, held, inPayloads, out, samplerExit, wgDone, outReader,
                   received>>
    /\ UNCHANGED <<agentVars, recvVars, fm>>

\* a task sends a payload on inPayloads
FeedPayload ==
    /\ Len(inPayloads) < InCap
    /\ Len(inPayloads) + Len(ReceivedOf("payload")) < MaxInPayloads
    /\ inPayloads' = Append(inPayloads,
                            FedPayload(Len(inPayloads) + Len(ReceivedOf("payload")) + 1))
    /\ UNCHANGED <<samplerPc, window, held, inSpans, out, samplerExit, wgDone, outReader,
                   received>>
    /\ UNCHANGED <<agentVars, recvVars, fm>>

\* Sampler.exit is closed
SamplerRaiseExit ==
    /\ ~samplerExit
    /\ samplerExit' = TRUE
    /\ UNCHANGED <<samplerPc, window, held, inSpans, inPayloads, out, wgDone, outReader,
                   received>>
    /\ UNCHANGED <<agentVars, recvVars, fm>>

\* case span := <-s.inSpans: s.se.AddSpan(span)
SamplerRecvSpan ==
    /\ samplerPc = "select"
    /\ inSpans # <<>>
    /\ window' = AddSpan(window, Head(inSpans))
    /\ inSpans' = Tail(inSpans)
    /\ received' = Append(received, [kind |-> "span", v |-> Head(inSpans)])
    /\ UNCHANGED <<samplerPc, held, inPayloads, out, samplerExit, wgDone, outReader>>
    /\ UNCHANGED <<agentVars, recvVars, fm>>

\* case ap := <-s.inPayloads, up to the send: s.se.FlushPayload(ap)
SamplerRecvPayload ==
    /\ samplerPc = "select"
    /\ inPayloads # <<>>
    /\ held' = OutValue(window, Head(inPayloads))
    /\ window' = FlushedWindow(window)
    /\ inPayloads' = Tail(inPayloads)
    /\ received' = Append(received, [kind |-> "payload", v |-> Head(inPayloads)])
    /\ samplerPc' = "send"
    /\ UNCHANGED <<inSpans, out, samplerExit, wgDone, outReader>>
    /\ UNCHANGED <<agentVars, recvVars, fm>>

\* s.out <- <the flushed payload>: out has no buffer, the send ends when the
\* reader receives
SamplerSend ==
    /\ samplerPc = "send"
    /\ outReader = "recv"
    /\ out' = Append(out, held)
    /\ samplerPc' = "select"
    /\ UNCHANGED <<window, held, inSpans, inPayloads, samplerExit, wgDone, outReader,
                   received>>
    /\ UNCHANGED <<agentVars, recvVars, fm>>

\* case <-s.exit: s.wg.Done(); return
SamplerExitCase ==
    /\ samplerPc = "select"
    /\ samplerExit
    /\ wgDone' = wgDone + 1
    /\ samplerPc' = "returned"
    /\ UNCHANGED <<window, held, inSpans, inPayloads, out, samplerExit, outReader, received>>
    /\ UNCHANGED <<agentVars, recvVars, fm>>

\* the reader of out is a long-running task too: it selects on exit
\* alongside out and returns
OutReaderExit ==
    /\ outReader = "recv"
    /\ samplerExit
    /\ outReader' = "returned"
    /\ UNCHANGED <<samplerPc, window, held, inSpans, inPayloads, out, samplerExit, wgDone,
                   received>>
    /\ UNCHANGED <<agentVars, recvVars, fm>>

\* the steps of the goroutine of Sampler.run
SamplerStep == SamplerRecvSpan \/ SamplerRecvPayload \/ SamplerSend \/ SamplerExitCase

SamplerNext ==
    FeedSpan \/ FeedPayload \/ SamplerRaiseExit \/ SamplerStep \/ OutReaderExit

(***************************************************************************)
(* Flush markers (model.Span).                                             *)
(***************************************************************************)
flushMarkerType == "_FLUSH_MARKER"

\* a variant of IsFlushMarker: a marker also has no trace id
IsFlushMarkerNoTraceID(s) == s.Type = flushMarkerType /\ s.TraceID = 0

\* Span.IsFlushMarker
IsFlushMarker(s) == s.Type = flushMarkerType

\* NewFlushMarker: Span{Type: flushMarkerType}, the other fields zero
NewFlushMarker ==
    [TraceID |-> 0, SpanID |-> 0, ParentID |-> 0, Start |-> 0, Duration |-> 0,
     Type |-> flushMarkerType]

\* the spans IsFlushMarker is applied to
TypedSpans ==
    [TraceID : {0, 7}, SpanID : {0, 1}, ParentID : {0, 1}, Start : {0, T0},
     Duration : {0, 1}, Type : {flushMarkerType, "", "http", "_flush_marker"}]

\* no span looked at yet
MiscInit ==
    /\ fm = [span |-> NewFlushMarker, made |-> FALSE, checked |-> FALSE, is |-> FALSE]
    /\ SamplerInit

\* any span to start with
MarkerInit ==
    fm \in [span : TypedSpans, made : {FALSE}, checked : {FALSE}, is : {FALSE}]

\* s := NewFlushMarker()
MakeMarker ==
    /\ ~fm.made
    /\ fm' = [span |-> NewFlushMarker, made |-> TRUE, checked |-> FALSE, is |-> FALSE]
    /\ UNCHANGED <<agentVars, recvVars, samplerVars>>

\* s.IsFlushMarker()
CheckMarker ==
    /\ ~fm.checked
    /\ fm' = [fm EXCEPT !.checked = TRUE, !.is = IsFlushMarker(fm.span)]
    /\ UNCHANGED <<agentVars, recvVars, samplerVars>>

MarkerNext == MakeMarker \/ CheckMarker

(***************************************************************************)
(* The Orchestrator's specification.                                       *)
(***************************************************************************)
Init == AgentInit /\ RecvInit /\ MiscInit

Next ==
    \/ Advance
    \/ RunRecvTrace
    \/ RunTick
    \/ RunSend
    \/ \E i \in 1..Len(procs) : ConcAddLock(i)
    \/ \E i \in 1..Len(procs) : ConcAddBody(i)
    \/ \E i \in 1..Len(procs) : SampAdd(i)
    \/ \E k \in 1..Len(ticks) : ConcFlushNow(k)
    \/ \E k \in 1..Len(ticks) : ConcFlushLock(k)
    \/ \E k \in 1..Len(ticks) : ConcFlushBody(k)
    \/ \E k \in 1..Len(ticks) : SampFlush(k)

Spec == Init /\ [][Next]_vars

\* the receiver alone
RecvSpec == Init /\ [][RecvNext]_vars

\* the flush markers alone
MarkerStart == AgentInit /\ RecvInit /\ MarkerInit /\ SamplerInit

MarkerSpec == MarkerStart /\ [][MarkerNext]_vars

\* the Sampler loop with its channels: the goroutine of run takes a step when
\* it can, and so does the reader of out
SamplerSpec ==
    /\ Init
    /\ [][SamplerNext]_vars
    /\ WF_vars(SamplerStep)
    /\ WF_vars(OutReaderExit)

\* a handler and Run at the two ends of the traces channel: a goroutine blocked
\* on the send is woken when the channel has room (the runtime queues blocked
\* senders), and Run keeps receiving
ChanSpec ==
    /\ Init
    /\ [][ChanNext]_vars
    /\ \A h \in 1..MaxReqs : SF_vars(HandlerStep(h))
    /\ WF_vars(RunRecvChan)

(***************************************************************************)
(* The Orchestrator with the exit signal. The environment is kept small    *)
(* (ExitTraces traces, ExitTicks ticks) and every goroutine that can take  *)
(* a step eventually takes one, as the Go scheduler guarantees.            *)
(***************************************************************************)
ExitTraces == 1
ExitTicks == 1

\* the environment's steps, bounded
ExitAdvance == now < T0 + ExitTicks * BSize /\ Advance
ExitRecvTrace == Len(procs) < ExitTraces /\ RunRecvTrace

FairRunStep == ExitRecvTrace \/ RunTick \/ RunSend \/ RunExitCase \/ RunAfterBreak

FairAddStep ==
    \/ \E i \in 1..Len(procs) : ConcAddLock(i)
    \/ \E i \in 1..Len(procs) : ConcAddBody(i)
    \/ \E i \in 1..Len(procs) : SampAdd(i)

FairFlushStep ==
    \/ \E k \in 1..Len(ticks) : ConcFlushNow(k)
    \/ \E k \in 1..Len(ticks) : ConcFlushLock(k)
    \/ \E k \in 1..Len(ticks) : ConcFlushBody(k)
    \/ \E k \in 1..Len(ticks) : SampFlush(k)

FairNext == ExitAdvance \/ RaiseExit \/ FairRunStep \/ FairAddStep \/ FairFlushStep

FairSpec ==
    /\ Init
    /\ [][FairNext]_vars
    /\ WF_vars(FairRunStep)
    /\ WF_vars(FairAddStep)
    /\ WF_vars(FairFlushStep)

(***************************************************************************)
(* The Orchestrator with a clock that goes on. The flush ticks never stop  *)
(* in the program; here the clock stops at Horizon, so the tick of Horizon *)
(* stands for all the later ones: it comes after the Add calls of the      *)
(* traces received, and no trace is received at Horizon.                   *)
(***************************************************************************)
FlushTraces == 1

\* the last clock value
Horizon == T0 + MaxTicks * BSize

\* time passes; the Add calls started have returned before the last tick
LiveAdvance ==
    /\ now + 1 = Horizon => \A i \in 1..Len(procs) : procs[i].conc \in {"dropped", "done"}
    /\ Advance

\* case t := <-a.Receiver.traces, before the last tick
LiveRecvTrace == Len(procs) < FlushTraces /\ now < Horizon /\ RunRecvTrace

LiveRunStep == RunTick \/ RunSend

LiveNext == LiveAdvance \/ LiveRecvTrace \/ LiveRunStep \/ FairAddStep \/ FairFlushStep

\* the clock advances, Run handles the ticks, and every goroutine that can
\* take a step eventually takes one
LiveSpec ==
    /\ Init
    /\ [][LiveNext]_vars
    /\ WF_vars(LiveAdvance)
    /\ WF_vars(LiveRunStep)
    /\ WF_vars(FairAddStep)
    /\ WF_vars(FairFlushStep)

(***************************************************************************)
(* Properties of the Orchestrator and the Concentrator.                    *)
(***************************************************************************)
\* the calls of HandleSpan for span ref recorded in a set of buckets
RECURSIVE SumHits(_, _)
SumHits(bs, ref) ==
    IF bs = {} THEN 0
    ELSE LET b == CHOOSE x \in bs : TRUE
         IN b.Hits[ref] + SumHits(bs \ {b}, ref)

\* the same in the results of the flushes of ticks 1..k
RECURSIVE FlushedHits(_, _)
FlushedHits(k, ref) ==
    IF k = 0 THEN 0 ELSE SumHits(ticks[k].res, ref) + FlushedHits(k - 1, ref)

MapBuckets(bk) == {bk[ts] : ts \in DOMAIN bk}

\* every bucket a flush has returned
FlushedBuckets == UNION {ticks[k].res : k \in 1..Len(ticks)}

\* C1: the payload sent for a tick holds the stats buckets that tick's
\* Concentrator.Flush returned and the traces that tick's Sampler.Flush
\* returned: no bucket a flush removed from the Concentrator is missing from
\* the payload of its tick.
C1_PayloadHoldsTickFlush ==
    \A k \in 1..Len(ticks) :
        ticks[k].sent =>
            /\ ticks[k].conc = "done" => written[k].Stats = ticks[k].res
            /\ ticks[k].samp = "done" => written[k].Traces = ticks[k].sres

\* C2 as stated: when a tick's Concentrator.Flush runs, the Add of every trace
\* dispatched before the tick was handled has completed.
C2_FlushAfterAddsOfDispatched ==
    \A k \in 1..Len(ticks) :
        ticks[k].conc \in {"locked", "done"} => ticks[k].dispatched \subseteq ticks[k].added

\* C2 amended: a tick's Concentrator.Flush observes every trace whose Add had
\* returned when the flush took the lock: each span of such a trace is in the
\* bucket map the flush iterates, under the key of its bucket, unless a flush
\* has already returned that bucket.
C2_FlushObservesCompletedAdds ==
    \A k \in 1..Len(ticks) :
        ticks[k].conc = "done" =>
            \A i \in ticks[k].added :
                \A j \in 1..Len(procs[i].trace) :
                    LET ts == BTime(procs[i].trace[j])
                    IN \/ /\ ts \in DOMAIN ticks[k].saw
                          /\ ticks[k].saw[ts].Hits[<<i, j>>] = 1
                       \/ \E k2 \in 1..Len(ticks) :
                              /\ k2 # k
                              /\ \E b \in ticks[k2].res : b.Start = ts /\ b.Hits[<<i, j>>] = 1

\* C2 witness: a flush has run that observed a trace dispatched before its
\* tick, while another trace dispatched before the tick was not yet added
C2_Witness ==
    \E k \in 1..Len(ticks) :
        /\ ticks[k].conc = "done"
        /\ ticks[k].added \cap ticks[k].dispatched # {}
        /\ ticks[k].dispatched \ ticks[k].added # {}
        /\ ticks[k].res # {}

\* C5: every bucket returned by a Concentrator.Flush that read the clock value
\* t starts at or before t - bucket_size (and so at or before now -
\* bucket_size): no bucket that is still open is in a flush result.
C5_FlushedBucketsAreComplete ==
    \A k \in 1..Len(ticks) :
        \A b \in ticks[k].res :
            /\ b.Start <= ticks[k].cnow - BSize
            /\ b.Start + b.Duration <= ticks[k].cnow
            /\ b.Start <= now - BSize

\* C5 witness: a flush returned a bucket and left an open one in the map
C5_Witness ==
    \E k \in 1..Len(ticks) :
        /\ ticks[k].conc = "done"
        /\ ticks[k].res # {}
        /\ \E ts \in DOMAIN ticks[k].saw : ts > ticks[k].cnow - BSize

\* C6: every key of the bucket map is a multiple of bucket_size and is the
\* start of the bucket stored under it; every span of a trace passed to
\* Concentrator.Add is handled exactly once, in a bucket whose start is a
\* multiple of bucket_size with start <= s.End() < start + bucket_size.
C6_SpanInOneAlignedBucket ==
    /\ \A ts \in DOMAIN buckets :
           /\ GoRem(ts, BSize) = 0
           /\ buckets[ts].Start = ts
           /\ buckets[ts].Duration = BSize
    /\ \A i \in AddsDone :
           \A j \in 1..Len(procs[i].trace) :
               LET s == procs[i].trace[j]
               IN /\ SumHits(MapBuckets(buckets), <<i, j>>)
                        + FlushedHits(Len(ticks), <<i, j>>) = 1
                  /\ \A b \in MapBuckets(buckets) \cup FlushedBuckets :
                         b.Hits[<<i, j>>] > 0 =>
                             /\ GoRem(b.Start, BSize) = 0
                             /\ b.Start <= End(s)
                             /\ End(s) < b.Start + BSize

\* C6 witness: Add has handled a trace whose two spans fall in two buckets
C6_Witness ==
    \E i \in AddsDone :
        /\ Len(procs[i].trace) = 2
        /\ BTime(procs[i].trace[1]) # BTime(procs[i].trace[2])
        /\ BTime(procs[i].trace[1]) \in DOMAIN buckets
        /\ End(procs[i].trace[1]) # BTime(procs[i].trace[1])

\* C3: once the exit signal is raised, Run eventually leaves its loop, closes
\* Receiver.exit and Writer.exit and returns.
C3_ExitLeadsToReturn ==
    exitRaised ~> (runPc = "returned" /\ receiverExit /\ writerExit)

\* C4: after the exit signal the Orchestrator sends one final flush payload to
\* the Writer, and then closes the Writer.
C4_FinalFlushBeforeClose ==
    exitRaised ~>
        (writerExit /\ \E k \in 1..Len(ticks) : ticks[k].afterExit /\ ticks[k].sent)

\* C12: when Run hands Process a trace whose root ends before now -
\* oldest_span_cutoff, neither Add is started and the bucket map and the
\* Sampler stay as they are; a trace whose root ends at or after now -
\* oldest_span_cutoff is dispatched to both; no span of a late trace is ever
\* handled in a bucket, in the map or flushed.
C12_LateTraceDispatchesNothing ==
    /\ [][Len(procs') = Len(procs) + 1 =>
            LET p == procs'[Len(procs')]
                late == End(GetRoot(p.trace)) < now - Cutoff
            IN /\ late => /\ p.conc = "dropped" /\ p.samp = "dropped"
                          /\ buckets' = buckets /\ sampBuf' = sampBuf
               /\ ~late => p.conc = "ready" /\ p.samp = "ready"]_vars
    /\ [](\A i \in DOMAIN procs :
            procs[i].conc = "dropped" =>
                /\ procs[i].samp = "dropped"
                /\ i \notin sampBuf
                /\ \A j \in 1..Len(procs[i].trace) :
                       SumHits(MapBuckets(buckets), <<i, j>>)
                           + FlushedHits(Len(ticks), <<i, j>>) = 0)

\* C12 witness: the same trace was received twice, in time and added the first
\* time, late and dropped the second time
C12_Witness ==
    \E i, k \in DOMAIN procs :
        /\ procs[i].trace = procs[k].trace
        /\ procs[i].conc = "done"
        /\ procs[k].conc = "dropped"

\* the flush ticks whose Sampler.Flush returned trace i
SampFlushedIn(i) == {k \in DOMAIN ticks : i \in ticks[k].sres}

\* C13: every trace Process dispatches is eventually added to the
\* Concentrator and to the Sampler; once Concentrator.Add has returned, each of
\* its spans has been handled exactly once; once Sampler.Add has returned, the
\* trace is staged or was returned by exactly one flush; Sampler.Add can run
\* whatever the state of Concentrator.Add, and Concentrator.Add can take the
\* mutex, when it is free, whatever the state of Sampler.Add.
C13_BothAddsOnceIndependently ==
    /\ \A i \in 1..ExitTraces :
           (i \in DOMAIN procs /\ procs[i].conc = "ready") ~>
               (i \in DOMAIN procs /\ procs[i].conc = "done" /\ procs[i].samp = "done")
    /\ [](\A i \in DOMAIN procs :
            /\ procs[i].conc = "done" =>
                   \A j \in 1..Len(procs[i].trace) :
                       SumHits(MapBuckets(buckets), <<i, j>>)
                           + FlushedHits(Len(ticks), <<i, j>>) = 1
            /\ procs[i].samp = "done" =>
                   Cardinality(SampFlushedIn(i)) + (IF i \in sampBuf THEN 1 ELSE 0) = 1
            /\ procs[i].samp = "ready" =>
                   (ENABLED SampAdd(i) /\ SampFlushedIn(i) = {} /\ i \notin sampBuf)
            /\ (procs[i].conc = "ready" /\ mu = <<>>) => ENABLED ConcAddLock(i))

\* C13 witness: a trace of two spans has been added to both aggregators
C13_Witness ==
    \E i \in DOMAIN procs :
        /\ Len(procs[i].trace) = 2
        /\ procs[i].conc = "done"
        /\ procs[i].samp = "done"
        /\ i \in sampBuf

(***************************************************************************)
(* Properties of the HTTP receiver.                                        *)
(***************************************************************************)
\* whether the spans of t carry two different trace ids
MixedIDs(t) == \E a, b \in 1..Len(t) : t[a].TraceID # t[b].TraceID

\* the trace ids of the spans of t, in order
TraceIDs(t) == [j \in 1..Len(t) |-> t[j].TraceID]

\* the Content-Types of a JSON request (the header may be absent)
JSONTypes == {"application/json", "text/json", ""}

\* handler h runs one iteration of its Traces loop in this step
ValidatesNow(h) == hs[h].pc = "loop" /\ hs'[h].next = hs[h].next + 1

\* C7: every trace on the traces channel has spans of one trace id; when a
\* handler validates a decoded trace that carries two different trace ids,
\* nothing is enqueued, its count of dropped traces grows by 1 and its count of
\* dropped spans by the length of the trace, the request having been answered
\* 200; the handler then adds these counts to TracesDropped and SpansDropped.
C7_OneTraceIDPerEnqueuedTrace ==
    /\ [](\A i \in 1..Len(traces) : traces[i] # <<>> /\ ~MixedIDs(traces[i]))
    /\ [][\A h \in 1..Len(hs) :
            (ValidatesNow(h) /\ MixedIDs(hs[h].decoded[hs[h].next])) =>
                /\ traces' = traces
                /\ hs'[h].tdropped = hs[h].tdropped + 1
                /\ hs'[h].sdropped = hs[h].sdropped + Len(hs[h].decoded[hs[h].next])
                /\ hs'[h].ttotal = hs[h].ttotal
                /\ hs[h].resp = <<200>>]_vars
    /\ [][\A h \in 1..Len(hs) :
            /\ (hs[h].pc = "add3" /\ hs'[h].pc = "add4") =>
                   stats'.TracesDropped = stats.TracesDropped + hs[h].tdropped
            /\ (hs[h].pc = "add4" /\ hs'[h].pc = "done") =>
                   stats'.SpansDropped = stats.SpansDropped + hs[h].sdropped]_vars

\* C7 witness: a request whose one trace has the trace ids 7, 7, 8 is done: the
\* trace was dropped, 1 trace and 3 spans counted as dropped, nothing enqueued
C7_Witness ==
    \E h \in 1..Len(hs) :
        /\ hs[h].pc = "done"
        /\ hs[h].resp = <<200>>
        /\ Len(hs[h].done) = 1
        /\ TraceIDs(hs[h].done[1].in) = <<7, 7, 8>>
        /\ hs[h].tdropped = 1
        /\ hs[h].sdropped = 3
        /\ traces = <<>>

\* C8: in every interval reported by logStats the dropped spans are among the
\* received ones: the reported SpansDropped is at most the reported
\* SpansReceived.
C8_ReportedDroppedWithinReceived ==
    \A n \in 1..Len(reports) : reports[n].sdropped <= reports[n].spans

\* C9 as stated: a request on v0.3 whose Content-Type is not a JSON one is
\* decoded with the MessagePack decoder.
C9_V03NonJSONUsesMsgpack ==
    \A h \in 1..Len(hs) :
        (hs[h].v = "v03" /\ hs[h].ct \notin JSONTypes) => hs[h].dec = "msgpack"

\* C9 amended: a request on v0.1 or v0.2 whose Content-Type is neither a JSON
\* one nor absent is answered 415 and nothing else, decodes nothing, validates
\* no trace, and its arrival leaves the traces channel and the four counters
\* as they were; a request on v0.3 is never answered 415: it is decoded with
\* the MessagePack decoder when its Content-Type is application/msgpack and
\* with the JSON decoder otherwise.
C9_GateOnV01V02DecoderOnV03 ==
    /\ [](\A h \in 1..Len(hs) :
            /\ (hs[h].v \in {"v01", "v02"} /\ hs[h].ct \notin JSONTypes) =>
                   /\ hs[h].resp = <<415>>
                   /\ hs[h].dec = "none"
                   /\ hs[h].pc = "done"
                   /\ hs[h].done = <<>>
            /\ hs[h].v = "v03" =>
                   /\ \A n \in 1..Len(hs[h].resp) : hs[h].resp[n] # 415
                   /\ hs[h].dec = (IF hs[h].ct = "application/msgpack"
                                   THEN "msgpack" ELSE "json"))
    /\ [][\A h \in 1..Len(hs') :
            (h > Len(hs) /\ hs'[h].v \in {"v01", "v02"} /\ hs'[h].ct \notin JSONTypes) =>
                /\ traces' = traces
                /\ stats' = stats
                /\ statsdErrors' = statsdErrors + 1]_vars

\* C9 witness: a v0.1 request with Content-Type application/msgpack was
\* answered 415
C9_Witness ==
    \E h \in 1..Len(hs) :
        /\ hs[h].v = "v01"
        /\ hs[h].ct = "application/msgpack"
        /\ hs[h].resp = <<415>>
        /\ traces = <<>>

\* C10: a request whose body decodes is answered 200, whatever becomes of its
\* traces; no trace of a request is validated or enqueued before its 200
\* response is written; a request answered 415 or 500 gets no 200 response.
C10_OKBeforeValidation ==
    \A h \in 1..Len(hs) :
        /\ (~(hs[h].v \in {"v01", "v02"} /\ hs[h].ct \notin JSONTypes)
              /\ DecodeOK(hs[h].v, hs[h].dec, hs[h].body)) => hs[h].resp = <<200>>
        /\ (hs[h].done # <<>> \/ hs[h].pc \in {"add2", "add3", "add4"}) =>
               hs[h].resp[1] = 200
        /\ (\E n \in 1..Len(hs[h].resp) : hs[h].resp[n] \in {415, 500}) =>
               /\ \A n \in 1..Len(hs[h].resp) : hs[h].resp[n] # 200
               /\ hs[h].done = <<>>
               /\ hs[h].pc = "done"

\* C10 witness: a request was answered 200 and then lost its two traces to the
\* validation, and nothing was enqueued
C10_Witness ==
    \E h \in 1..Len(hs) :
        /\ hs[h].resp = <<200>>
        /\ hs[h].pc = "done"
        /\ Len(hs[h].done) = 2
        /\ \A n \in 1..2 : hs[h].done[n].kind # "kept"
        /\ traces = <<>>

(***************************************************************************)
(* Properties of the traces channel.                                       *)
(***************************************************************************)
\* the occurrences of x in a sequence
Occ(seq, x) == Cardinality({n \in DOMAIN seq : seq[n] = x})

\* the traces handler h has found valid, as it sent them
KeptOf(h) ==
    LET k == SelectSeq(hs[h].done, LAMBDA r : r.kind = "kept")
    IN [n \in 1..Len(k) |-> k[n].out]

\* the occurrences of x among the traces the handlers 1..h have found valid
RECURSIVE OccKept(_, _)
OccKept(h, x) == IF h = 0 THEN 0 ELSE Occ(KeptOf(h), x) + OccKept(h - 1, x)

\* the traces Run has received
RunReceived == [n \in 1..Len(procs) |-> procs[n].trace]

\* C11: the traces channel never holds more than 50 traces; a trace a handler
\* has found valid is in the channel or has been received by Run, once for
\* each time it was found valid, and nowhere else; every handler finishes and
\* the channel drains, so each such trace is enqueued and then received.
C11_ChannelBoundedNoTraceLost ==
    /\ [](Len(traces) <= ChanCap)
    /\ [](\A x \in {traces[n] : n \in DOMAIN traces}
                   \cup {RunReceived[n] : n \in DOMAIN procs}
                   \cup UNION {{KeptOf(h)[n] : n \in DOMAIN KeptOf(h)} : h \in DOMAIN hs} :
            Occ(traces, x) + Occ(RunReceived, x) = OccKept(Len(hs), x))
    /\ <>[](traces = <<>> /\ \A h \in DOMAIN hs : hs[h].pc = "done")

\* C11 witness: the channel holds 50 traces and the handler waits to send the
\* next one, Run having received one
C11_Witness ==
    /\ Len(traces) = ChanCap
    /\ Len(procs) = 1
    /\ \E h \in DOMAIN hs :
           /\ hs[h].pc = "loop"
           /\ hs[h].next <= Len(hs[h].decoded)
           /\ Len(KeptOf(h)) = ChanCap + 1

\* the spans of t that Normalize accepts, normalized, in the order of t
GoodSpans(t) ==
    LET g == SelectSeq(t, NormalizeOK)
    IN [j \in 1..Len(g) |-> Normalize(g[j])]

\* whether two sequences hold the same elements, each as often
SameBag(a, b) ==
    /\ Len(a) = Len(b)
    /\ \A x \in {a[j] : j \in DOMAIN a} \cup {b[j] : j \in DOMAIN b} : Occ(a, x) = Occ(b, x)

\* C14: when a handler validates a decoded trace of one trace id, either some
\* span passes Normalize, and the trace appended to the channel holds exactly
\* the spans that passed, each once, and is not empty; or none does (the trace
\* may be empty), and nothing is appended and the handler's count of dropped
\* traces grows by 1.
C14_KeptTraceHoldsTheValidSpans ==
    [][\A h \in 1..Len(hs) :
         (ValidatesNow(h) /\ ~MixedIDs(hs[h].decoded[hs[h].next])) =>
             LET t == hs[h].decoded[hs[h].next]
                 good == GoodSpans(t)
             IN IF good # <<>>
                THEN /\ Len(traces') = Len(traces) + 1
                     /\ SameBag(traces'[Len(traces')], good)
                     /\ SubSeq(traces', 1, Len(traces)) = traces
                     /\ hs'[h].tdropped = hs[h].tdropped
                     /\ hs'[h].ttotal = hs[h].ttotal + 1
                     /\ hs'[h].sdropped = hs[h].sdropped + Len(t) - Len(good)
                ELSE /\ traces' = traces
                     /\ hs'[h].tdropped = hs[h].tdropped + 1
                     /\ hs'[h].ttotal = hs[h].ttotal
                     /\ hs'[h].sdropped = hs[h].sdropped + Len(t)]_vars

\* C14 witness: of a trace of three spans the first failed Normalize; the
\* trace in the channel holds the third and the second, in that order
C14_Witness ==
    \E h \in DOMAIN hs :
        /\ Len(hs[h].done) = 1
        /\ Len(hs[h].done[1].in) = 3
        /\ ~NormalizeOK(hs[h].done[1].in[1])
        /\ traces = <<hs[h].done[1].out>>
        /\ traces[1] = <<Normalize(hs[h].done[1].in[3]), Normalize(hs[h].done[1].in[2])>>

\* the concatenation of the traces of a list
RECURSIVE Flatten(_)
Flatten(ts) == IF ts = <<>> THEN <<>> ELSE Head(ts) \o Flatten(Tail(ts))

\* C15: on v0.1 the decoded spans are regrouped by trace id: there are as many
\* traces as distinct trace ids, no trace is empty or carries two trace ids,
\* no two traces carry the same trace id, and the traces together hold the
\* decoded spans, each as often as the body does; no trace of a v0.1 request is
\* dropped for a trace id mismatch.
C15_V01RegroupsByTraceID ==
    \A h \in DOMAIN hs :
        (hs[h].v = "v01" /\ hs[h].resp = <<200>>) =>
            LET spans == hs[h].body.data
                d == hs[h].decoded
            IN /\ Len(d) = Cardinality({spans[j].TraceID : j \in DOMAIN spans})
               /\ \A n \in DOMAIN d : d[n] # <<>> /\ ~MixedIDs(d[n])
               /\ \A n, m \in DOMAIN d : n # m => d[n][1].TraceID # d[m][1].TraceID
               /\ SameBag(Flatten(d), spans)
               /\ \A n \in DOMAIN hs[h].done : hs[h].done[n].kind # "mismatch"

\* C15 witness: a v0.1 request with spans of trace ids 7, 7, 8 is done: two
\* traces were decoded and both are in the channel
C15_Witness ==
    \E h \in DOMAIN hs :
        /\ hs[h].v = "v01"
        /\ hs[h].pc = "done"
        /\ hs[h].resp = <<200>>
        /\ hs[h].body.shape = "spans"
        /\ TraceIDs(hs[h].body.data) = <<7, 7, 8>>
        /\ Len(hs[h].decoded) = 2
        /\ Len(traces) = 2

\* the maximum body size of the specification, counted in spans
BodyLimit == 2

\* the size of a body, counted in spans
BodySize(body) ==
    IF body.enc = "bad" THEN 0
    ELSE IF body.shape = "spans" THEN Len(body.data)
    ELSE Len(Flatten(body.data))

\* C16: a request whose body is over the maximum body size is answered 413
\* and none of its traces is validated or enqueued.
C16_OversizeBodyAnswered413 ==
    \A h \in DOMAIN hs :
        BodySize(hs[h].body) > BodyLimit =>
            hs[h].resp = <<413>> /\ hs[h].done = <<>>

\* C16 witness: a request whose body is over that size was read whole,
\* answered 200, and its trace is in the channel
C16_Witness ==
    \E h \in DOMAIN hs :
        /\ BodySize(hs[h].body) > BodyLimit
        /\ hs[h].resp = <<200>>
        /\ hs[h].pc = "done"
        /\ Len(traces) = 1
        /\ Len(traces[1]) = BodySize(hs[h].body)

\* whether the decoding of request h failed or was refused
Rejected(h) ==
    \/ hs[h].v \in {"v01", "v02"} /\ hs[h].ct \notin JSONTypes
    \/ ~DecodeOK(hs[h].v, IF hs[h].v = "v03" /\ hs[h].ct = "application/msgpack"
                          THEN "msgpack" ELSE "json", hs[h].body)

\* C17: a request whose Content-Type is refused or whose body does not decode
\* gets one response, 415 or 500; no trace of it is validated or enqueued,
\* its handler never reaches the counters, and its arrival gives statsd
\* exactly one error count and leaves the channel and the four counters as
\* they were; the arrival of any other request gives no error count.
C17_DecodeFailureCountsOneError ==
    /\ [](\A h \in DOMAIN hs :
            Rejected(h) =>
                /\ hs[h].resp = (IF hs[h].v \in {"v01", "v02"} /\ hs[h].ct \notin JSONTypes
                                 THEN <<415>> ELSE <<500>>)
                /\ hs[h].pc = "done"
                /\ hs[h].done = <<>>
                /\ hs[h].stotal = 0 /\ hs[h].sdropped = 0
                /\ hs[h].ttotal = 0 /\ hs[h].tdropped = 0)
    /\ [][Len(hs') = Len(hs) + 1 =>
            LET rejected ==
                    \/ hs'[Len(hs')].v \in {"v01", "v02"} /\ hs'[Len(hs')].ct \notin JSONTypes
                    \/ ~DecodeOK(hs'[Len(hs')].v,
                                 IF hs'[Len(hs')].v = "v03"
                                    /\ hs'[Len(hs')].ct = "application/msgpack"
                                 THEN "msgpack" ELSE "json", hs'[Len(hs')].body)
            IN /\ traces' = traces
               /\ stats' = stats
               /\ statsdErrors' = statsdErrors + (IF rejected THEN 1 ELSE 0)]_vars

\* C17 witness: a v0.2 JSON request whose body is no JSON was answered 500 and
\* counted as one error
C17_Witness ==
    \E h \in DOMAIN hs :
        /\ hs[h].v = "v02"
        /\ hs[h].ct = "application/json"
        /\ hs[h].body.enc = "bad"
        /\ hs[h].resp = <<500>>
        /\ statsdErrors = 1
        /\ traces = <<>>

(***************************************************************************)
(* Properties of the removal loop.                                         *)
(***************************************************************************)
\* C20: the removal loop of handleTraces never reaches its panic: no handler
\* stops at the panic and no validated trace ends in it, the indices to
\* remove being ascending and taken from the last to the first.
C20_RemovalNeverPanics ==
    \A h \in 1..Len(hs) :
        /\ hs[h].pc # "panic"
        /\ \A n \in 1..Len(hs[h].done) : hs[h].done[n].kind # "panic"

\* C20 witness: a trace was sent after the loop removed two of its spans,
\* the last span among them
C20_Witness ==
    \E h \in 1..Len(hs) : \E n \in 1..Len(hs[h].done) :
        LET r == hs[h].done[n] IN
        /\ r.kind = "kept"
        /\ r.sdropped = 2
        /\ ~NormalizeOK(r.in[Len(r.in)])
        /\ Len(r.out) = Len(r.in) - 2

(***************************************************************************)
(* Properties of the receiver's counters.                                  *)
(***************************************************************************)
\* the atomic adds of handleTraces that handler h has executed, per counter
AddedBy(h) ==
    LET pc == hs[h].pc IN
    [TracesReceived |-> IF pc \in {"add2", "add3", "add4", "done"} THEN hs[h].ttotal ELSE 0,
     SpansReceived  |-> IF pc \in {"add3", "add4", "done"} THEN hs[h].stotal ELSE 0,
     TracesDropped  |-> IF pc \in {"add4", "done"} THEN hs[h].tdropped ELSE 0,
     SpansDropped   |-> IF pc = "done" THEN hs[h].sdropped ELSE 0]

RECURSIVE AddedUpTo(_)
\* the sum of AddedBy over the handlers 1..n
AddedUpTo(n) ==
    IF n = 0
    THEN [TracesReceived |-> 0, SpansReceived |-> 0, TracesDropped |-> 0, SpansDropped |-> 0]
    ELSE LET a == AddedUpTo(n - 1)
             b == AddedBy(n)
         IN  [f \in DOMAIN a |-> a[f] + b[f]]

RECURSIVE EmittedUpTo(_)
\* the sum of the statsd counts logStats gave in its intervals 1..n
EmittedUpTo(n) ==
    IF n = 0
    THEN [TracesReceived |-> 0, SpansReceived |-> 0, TracesDropped |-> 0, SpansDropped |-> 0]
    ELSE LET e == EmittedUpTo(n - 1)
         IN  [TracesReceived |-> e.TracesReceived + reports[n].traces,
              SpansReceived  |-> e.SpansReceived + reports[n].spans,
              TracesDropped  |-> e.TracesDropped + reports[n].tdropped,
              SpansDropped   |-> e.SpansDropped + reports[n].sdropped]

\* what logStats has loaded in the running iteration and not yet emitted
Loaded ==
    [TracesReceived |-> ls.traces, SpansReceived |-> ls.spans,
     TracesDropped |-> ls.tdropped, SpansDropped |-> ls.sdropped]

\* C19: no count is lost between the handlers and logStats: for each of the
\* four counters, what was emitted over the intervals, what logStats holds
\* loaded and what is still in the counter add up to what the handlers added.
C19_NoCountLost ==
    \A f \in DOMAIN stats :
        EmittedUpTo(Len(reports))[f] + Loaded[f] + stats[f] = AddedUpTo(Len(hs))[f]

\* C19 witness: a handler has added one received span, logStats has emitted
\* its interval, and the span is neither in the report nor in the counter
C19_Witness ==
    /\ Len(hs) = 1
    /\ hs[1].pc = "done"
    /\ hs[1].stotal = 1
    /\ Len(reports) = 1
    /\ ls.pc = 0
    /\ reports[1].spans = 0
    /\ stats.SpansReceived = 0

(***************************************************************************)
(* Properties of the flush markers.                                        *)
(***************************************************************************)
\* C18: IsFlushMarker says true of a span exactly when the Type of the span
\* is "_FLUSH_MARKER", whatever its other fields; it says true of every span
\* NewFlushMarker returns.
C18_FlushMarkerIffType ==
    fm.checked =>
        /\ fm.is <=> fm.span.Type = "_FLUSH_MARKER"
        /\ fm.made => fm.is

\* C18 witness: IsFlushMarker said true of a span with a trace id that
\* NewFlushMarker did not make
C18_Witness ==
    /\ fm.checked
    /\ fm.is
    /\ ~fm.made
    /\ fm.span.TraceID = 7

(***************************************************************************)
(* Properties of Concentrator.Flush.                                       *)
(***************************************************************************)
\* C21: Concentrator.Flush removes from the bucket map exactly the buckets
\* it returns: after a Flush that read the clock value cnow no bucket that
\* starts at or before cnow - BSize remains, every bucket that starts after
\* cnow - BSize is still in the map with the contents it had, and the
\* buckets returned are the ones removed.
C21_FlushRemovesExactlyWhatItReturns ==
    [][\A k \in 1..Len(ticks) :
          (ticks[k].conc = "locked" /\ ticks'[k].conc = "done") =>
              LET n == ticks[k].cnow IN
              /\ \A ts \in DOMAIN buckets' : ts > n - BSize
              /\ \A ts \in DOMAIN buckets :
                     ts > n - BSize => ts \in DOMAIN buckets' /\ buckets'[ts] = buckets[ts]
              /\ DOMAIN buckets' \subseteq DOMAIN buckets
              /\ ticks'[k].res = {buckets[ts] : ts \in DOMAIN buckets \ DOMAIN buckets'}]_vars

\* C21 witness: a Flush has returned a bucket and found another one in the
\* map that it left there
C21_Witness ==
    \E k \in 1..Len(ticks) :
        /\ ticks[k].conc = "done"
        /\ ticks[k].res # {}
        /\ \E ts \in DOMAIN ticks[k].saw :
               /\ ts > ticks[k].cnow - BSize
               /\ ts \in DOMAIN buckets

\* C22: every bucket created by Concentrator.Add is eventually returned by
\* a Concentrator.Flush: a bucket in the map, created for a span or found
\* for it, leads to a state where a Flush has returned the bucket of that
\* span and the map no longer holds it.
C22_BucketEventuallyFlushed ==
    \A ref \in (1..FlushTraces) \X (1..2) :
        (\E ts \in DOMAIN buckets : buckets[ts].Hits[ref] > 0)
            ~> (\E b \in FlushedBuckets : b.Hits[ref] > 0 /\ b.Start \notin DOMAIN buckets)

\* C22 witness: a bucket that one Flush found in the map and left there has
\* been returned by a later Flush
C22_Witness ==
    \E k \in 1..Len(ticks) : \E m \in 1..Len(ticks) :
        /\ k # m
        /\ ticks[k].conc = "done"
        /\ ticks[m].conc = "done"
        /\ \E ts \in DOMAIN ticks[k].saw :
               /\ \A b \in ticks[k].res : b.Start # ts
               /\ \E b \in ticks[m].res : b.Start = ts
               /\ ts \notin DOMAIN buckets

(***************************************************************************)
(* Properties of the Concentrator's mutex.                                 *)
(***************************************************************************)
\* the Add calls and the Flush calls that are between Lock and Unlock
AddsInside == {i \in 1..Len(procs) : procs[i].conc = "locked"}
FlushesInside == {k \in 1..Len(ticks) : ticks[k].conc = "locked"}

\* C23: under any interleaving of Concentrator.Add and Concentrator.Flush
\* calls at most one of them is between Lock and Unlock, the one the mutex
\* names, and span handling is conserved: for every span of a trace whose
\* Add has returned, the buckets in the map and the buckets returned by the
\* flushes hold one handling of it in all, and none for a span of any other
\* trace.
C23_OneHolderAndSpansConserved ==
    /\ Cardinality(AddsInside) + Cardinality(FlushesInside) <= 1
    /\ \A i \in AddsInside : mu = <<"add", i>>
    /\ \A k \in FlushesInside : mu = <<"flush", k>>
    /\ AddsInside \cup FlushesInside = {} => mu = <<>>
    /\ \A ref \in SpanRefs :
           LET inMap == {ts \in DOMAIN buckets : buckets[ts].Hits[ref] > 0}
               inRes == {k \in 1..Len(ticks) : \E b \in ticks[k].res : b.Hits[ref] > 0}
           IN /\ Cardinality(inMap) + Cardinality(inRes)
                    = IF ref[1] \in AddsDone /\ ref[2] <= Len(procs[ref[1]].trace) THEN 1 ELSE 0
              /\ \A ts \in inMap : buckets[ts].Hits[ref] = 1
              /\ \A k \in inRes : Cardinality({b \in ticks[k].res : b.Hits[ref] > 0}) = 1
                                  /\ \A b \in ticks[k].res : b.Hits[ref] <= 1

\* C23 witness: an Add holds the mutex while a Flush waits for it, after
\* another Flush has returned a bucket and with a bucket still in the map
C23_Witness ==
    /\ \E i \in AddsInside : \E k \in 1..Len(ticks) : ticks[k].conc = "gotnow"
    /\ FlushedBuckets # {}
    /\ DOMAIN buckets # {}

(***************************************************************************)
(* Properties of the Sampler loop.                                         *)
(***************************************************************************)
RECURSIVE ExpectedOut(_, _, _)
\* the flushed payloads the engine owes for the items e[n..] received, the
\* window holding w: a span joins the window, a payload leaves with it
ExpectedOut(e, n, w) ==
    IF n > Len(e) THEN <<>>
    ELSE IF e[n].kind = "span" THEN ExpectedOut(e, n + 1, AddSpan(w, e[n].v))
    ELSE <<FlushPayload(w, e[n].v)>> \o ExpectedOut(e, n + 1, <<>>)

\* out holds, in the order received, one flushed payload per payload
\* received, but for the one being sent
OutFollowsReceived ==
    LET exp == ExpectedOut(received, 1, <<>>) IN
    /\ Len(exp) = Len(ReceivedOf("payload"))
    /\ Len(out) = Len(exp) - (IF samplerPc = "send" THEN 1 ELSE 0)
    /\ \A n \in 1..Len(out) : out[n] = exp[n]
    /\ samplerPc = "send" => held = exp[Len(exp)]

\* C24: every payload Sampler.run receives on inPayloads produces exactly
\* one payload on out, the engine's FlushPayload of it, in the order
\* received, and it arrives there as long as out has its reader; the engine
\* is called from the loop alone, one call at a time.
C24_OneFlushedPayloadPerPayloadInOrder ==
    /\ [](OutFollowsReceived /\ samplerPc \in {"select", "send", "returned"})
    /\ \A n \in 1..MaxInPayloads :
           (Len(ReceivedOf("payload")) >= n) ~> (Len(out) >= n \/ outReader = "returned")

\* C24 witness: two payloads have come out, the second one with spans
\* received after the first
C24_Witness ==
    /\ Len(out) = 2
    /\ out[2].Stats = 2
    /\ out[2].Traces # <<>>
    /\ received[1].kind = "payload"

\* C25: once the exit signal is raised, Sampler.run eventually returns and
\* has signalled its wait group exactly once, from whatever position it is
\* in, the send on out included.
C25_ExitLeadsToSamplerReturn ==
    samplerExit ~> (samplerPc = "returned" /\ wgDone = 1)

\* C25 witness: the exit signal is raised, Sampler.run is in its send on
\* out and the reader of out has returned
C25_Witness ==
    /\ samplerExit
    /\ samplerPc = "send"
    /\ outReader = "returned"

(***************************************************************************)
(* Properties of the flush results over a run.                             *)
(***************************************************************************)
\* C26: across the results of all the Concentrator.Flush calls of a run each
\* bucket start appears at most once: no two flushes return a bucket with
\* the same start.
C26_BucketStartFlushedOnce ==
    \A k \in 1..Len(ticks) : \A m \in 1..Len(ticks) :
        k # m => \A b \in ticks[k].res : \A c \in ticks[m].res : b.Start # c.Start

\* C26 witness: a trace that was not late when Run received it has been
\* added after a flush returned the bucket of its root, and a later flush
\* has returned a bucket with that start again
C26_Witness ==
    \E k \in 1..Len(ticks) : \E m \in 1..Len(ticks) : \E i \in AddsDone :
        /\ k # m
        /\ Len(procs[i].trace) = 1
        /\ \E b \in ticks[k].res : b.Start = BTime(procs[i].trace[1]) /\ b.Hits[<<i, 1>>] = 0
        /\ \E c \in ticks[m].res : c.Start = BTime(procs[i].trace[1]) /\ c.Hits[<<i, 1>>] = 1

=============================================================================
